---- MODULE Spec2Model ----
(***************************************************************************)
(* The combinational-logic core of the logic-gate editor                   *)
(* (src/utils/circuitLogic.ts): the propagation evaluator simulateCircuit, *)
(* the truth-table generator generateTruthTable and the expression         *)
(* synthesizer generateExpression, applied to bounded circuits (Spec), and  *)
(* the editor that builds circuits from the empty one (EditorSpec): the    *)
(* gestures of App and Canvas and the effect that runs the core after      *)
(* each of them, and the circuit generator of the analysis panel          *)
(* (PanelSpec): handleGenerate, the service parseExpressionToCircuit and   *)
(* the import of what it returns.                                          *)
(*                                                                         *)
(* A node is a record [id, type, label, value]; a wire is a record         *)
(* [id, sourceNodeId, targetNodeId, targetPinIndex].  Node and wire ids    *)
(* are strings in the source and natural numbers here.  `boolean |         *)
(* undefined` is a sequence of length at most one: << >> is undefined.     *)
(* A string built by the synthesizer is the sequence of the pieces its     *)
(* template literals concatenate; Render joins them into the string.       *)
(***************************************************************************)
EXTENDS Integers, Sequences, FiniteSets, TLC

VARIABLES nodes, wires, pc, newNodes, changed, iterations, i, table, expr,
          now, tempWireStart,
          inputExpr, isGenerating, inFlight, requested, alerts, apiKey

\* The state of the generator of the analysis panel: the text typed, the
\* flag, the requests that have not completed, the number of requests made,
\* the number of failure alerts shown, and whether process.env.API_KEY is set.
panelVars == <<inputExpr, isGenerating, inFlight, requested, alerts, apiKey>>

vars == <<nodes, wires, pc, newNodes, changed, iterations, i, table, expr,
          now, tempWireStart,
          inputExpr, isGenerating, inFlight, requested, alerts, apiKey>>

(* ------------------------------ bounds --------------------------------- *)

MaxNodes == 3

MaxDriven == 2

MaxBinaryGates == 1

\* The ids the editor hands out before it stops adding nodes and wires.
MaxClock == 5

\* The requests the panel makes before it stops making them.
MaxRequests == 2

(* ------------------------------ types ---------------------------------- *)

GateType == {"AND", "OR", "NOT", "NAND", "NOR", "XOR", "INPUT", "OUTPUT"}

BinaryGates == {"AND", "OR", "NAND", "NOR", "XOR"}

MAX_ITERATIONS == 50

undefined == << >>

null == << >>

(* ----------------------- array helpers of the source ------------------- *)

\* Array.prototype.find on the node list: the first node with that id, as a
\* sequence of length one, or << >> when there is none.
FindNode(allNodes, nodeId) ==
  LET hits == SelectSeq(allNodes, LAMBDA n : n.id = nodeId)
  IN  IF hits = << >> THEN << >> ELSE <<hits[1]>>

RECURSIVE InsertByPin(_, _)
\* One step of a stable insertion: w goes after every wire whose pin index
\* is not greater than its own.
InsertByPin(sorted, w) ==
  IF sorted = << >> THEN <<w>>
  ELSE IF sorted[Len(sorted)].targetPinIndex <= w.targetPinIndex
       THEN Append(sorted, w)
       ELSE Append(InsertByPin(SubSeq(sorted, 1, Len(sorted) - 1), w),
                   sorted[Len(sorted)])

RECURSIVE SortByPin(_)
\* inputWires.sort((a, b) => a.targetPinIndex - b.targetPinIndex): stable.
SortByPin(ws) ==
  IF ws = << >> THEN << >>
  ELSE InsertByPin(SortByPin(SubSeq(ws, 1, Len(ws) - 1)), ws[Len(ws)])

InputWires(nodeId, ws) ==
  SortByPin(SelectSeq(ws, LAMBDA w : w.targetNodeId = nodeId))

(* ------------------------------ evaluator ------------------------------ *)

RECURSIVE FillInputs(_, _, _)
\* The forEach of getNodeInputs: each wire, in sorted order, writes its
\* source's value into the slot of its pin when the source exists and the
\* pin index is below 2.
FillInputs(inputWires, allNodes, inputs) ==
  IF inputWires = << >> THEN inputs
  ELSE LET w == inputWires[1]
           sourceNode == FindNode(allNodes, w.sourceNodeId)
           next == IF sourceNode # << >> /\ w.targetPinIndex < 2
                   THEN [inputs EXCEPT ![w.targetPinIndex] = <<sourceNode[1].value>>]
                   ELSE inputs
       IN  FillInputs(Tail(inputWires), allNodes, next)

\* inputs is indexed 0..1 as in the source.
getNodeInputs(nodeId, ws, allNodes) ==
  FillInputs(InputWires(nodeId, ws), allNodes, [k \in 0..1 |-> undefined])

\* evaluateGate reading an unwired pin as true.
evaluateGateUndefinedTrue(type, inputs) ==
  LET a == inputs[0] # <<FALSE>>
      b == inputs[1] # <<FALSE>>
  IN  CASE type = "AND"    -> a /\ b
        [] type = "OR"     -> a \/ b
        [] type = "NOT"    -> ~a
        [] type = "NAND"   -> ~(a /\ b)
        [] type = "NOR"    -> ~(a \/ b)
        [] type = "XOR"    -> (a /\ ~b) \/ (~a /\ b)
        [] type = "INPUT"  -> a
        [] type = "OUTPUT" -> a
        [] OTHER           -> FALSE

evaluateGate(type, inputs) ==
  LET a == inputs[0] = <<TRUE>>
      b == inputs[1] = <<TRUE>>
  IN  CASE type = "AND"    -> a /\ b
        [] type = "OR"     -> a \/ b
        [] type = "NOT"    -> ~a
        [] type = "NAND"   -> ~(a /\ b)
        [] type = "NOR"    -> ~(a \/ b)
        [] type = "XOR"    -> (a /\ ~b) \/ (~a /\ b)
        [] type = "INPUT"  -> a
        [] type = "OUTPUT" -> a
        [] OTHER           -> FALSE

\* The value the map callback of one pass computes for a non-INPUT node.
NewValue(node, ws, cur) ==
  evaluateGate(node.type, getNodeInputs(node.id, ws, cur))

\* Array.prototype.map builds its result at once: concatenation makes TLC
\* compute the sequence a function constructor denotes instead of keeping it
\* as a closure over the array it was mapped from.
Array(f) == f \o << >>

\* A pass without the early return for INPUT nodes: it evaluates them too.
PassNodesInputsToo(cur, ws) ==
  Array([k \in 1..Len(cur) |->
     LET newValue == NewValue(cur[k], ws, cur)
     IN  IF newValue # cur[k].value
         THEN [cur[k] EXCEPT !.value = newValue]
         ELSE cur[k]])

RECURSIVE UpdateFrom(_, _, _)
\* The nodes from position k on updated one after the other, each from the
\* list as the updates before it left it.
UpdateFrom(cur, ws, k) ==
  IF k > Len(cur) THEN cur
  ELSE UpdateFrom(
         IF cur[k].type = "INPUT" THEN cur
         ELSE [cur EXCEPT ![k].value = NewValue(cur[k], ws, cur)],
         ws, k + 1)

\* A pass that updates the list in place.
PassNodesInPlace(cur, ws) == UpdateFrom(cur, ws, 1)

\* nextNodes of one pass of the while loop: every node from the snapshot cur.
PassNodes(cur, ws) ==
  Array([k \in 1..Len(cur) |->
     IF cur[k].type = "INPUT" THEN cur[k]
     ELSE LET newValue == NewValue(cur[k], ws, cur)
          IN  IF newValue # cur[k].value
              THEN [cur[k] EXCEPT !.value = newValue]
              ELSE cur[k]])

\* `changed` set only by a value that rises.
PassChangedRisingOnly(cur, ws) ==
  \E k \in 1..Len(cur) :
     /\ cur[k].type # "INPUT"
     /\ NewValue(cur[k], ws, cur) /\ ~cur[k].value

\* A pass that never reports a change, so that the loop stops after one.
PassChangedNever(cur, ws) == FALSE

\* `changed` assigned by every node instead of raised: it ends as the last
\* non-INPUT node of the list left it.
PassChangedLastNode(cur, ws) ==
  LET driven == {k \in 1..Len(cur) : cur[k].type # "INPUT"}
  IN  /\ driven # {}
      /\ LET last == CHOOSE k \in driven : \A j \in driven : j <= k
         IN  NewValue(cur[last], ws, cur) # cur[last].value

\* The flag `changed` after that pass.
PassChanged(cur, ws) ==
  \E k \in 1..Len(cur) :
     /\ cur[k].type # "INPUT"
     /\ NewValue(cur[k], ws, cur) # cur[k].value

\* The values the locals of simulateCircuit range over.
LoopStates ==
  [newNodes : Seq([id : Nat, type : GateType, label : STRING, value : BOOLEAN]),
   changed : BOOLEAN, iterations : Nat]

\* The while loop from the locals (cur, chg, iter) on, and what it returns.
SimLoop(cur, ws, chg, iter) ==
  LET loop[s \in LoopStates] ==
        IF s.changed /\ s.iterations < MAX_ITERATIONS
        THEN loop[[newNodes   |-> PassNodes(s.newNodes, ws),
                   changed    |-> PassChanged(s.newNodes, ws),
                   iterations |-> s.iterations + 1]]
        ELSE s.newNodes
  IN  loop[[newNodes |-> cur, changed |-> chg, iterations |-> iter]]

simulateCircuit(ns, ws) == SimLoop(ns, ws, TRUE, 0)

(* ------------------------------ truth table ---------------------------- *)

\* The labels the model draws, in the order localeCompare gives them.
LabelOrder == <<"", "A", "B", "C", "D", "Y0", "Y1", "Y2", "Y3">>

Rank(label) == CHOOSE k \in 1..Len(LabelOrder) : LabelOrder[k] = label

\* a.label.localeCompare(b.label) <= 0
LabelLeq(a, b) == Rank(a.label) <= Rank(b.label)

RECURSIVE InsertByLabel(_, _)
InsertByLabel(sorted, n) ==
  IF sorted = << >> THEN <<n>>
  ELSE IF LabelLeq(sorted[Len(sorted)], n)
       THEN Append(sorted, n)
       ELSE Append(InsertByLabel(SubSeq(sorted, 1, Len(sorted) - 1), n),
                   sorted[Len(sorted)])

RECURSIVE SortByLabel(_)
\* .sort((a, b) => a.label.localeCompare(b.label)): stable.
SortByLabel(ns) ==
  IF ns = << >> THEN << >>
  ELSE InsertByLabel(SortByLabel(SubSeq(ns, 1, Len(ns) - 1)), ns[Len(ns)])

SortedInputs(ns) == SortByLabel(SelectSeq(ns, LAMBDA n : n.type = "INPUT"))

SortedOutputs(ns) == SortByLabel(SelectSeq(ns, LAMBDA n : n.type = "OUTPUT"))

RECURSIVE Pow2(_)
Pow2(n) == IF n = 0 THEN 1 ELSE 2 * Pow2(n - 1)

\* 2 * inputs.length in place of the shift.
NumRowsLinear(ns) == 2 * Len(SortedInputs(ns))

\* 1 << inputs.length
NumRows(ns) == Pow2(Len(SortedInputs(ns)))

\* ((row >> shift) & 1) === 1
Bit(row, shift) == (row \div Pow2(shift)) % 2 = 1

\* inputs.findIndex(inp => inp.id === id), 0-based; -1 when there is none.
FindIndex(inputs, id) ==
  IF \E k \in 1..Len(inputs) : inputs[k].id = id
  THEN (CHOOSE k \in 1..Len(inputs) :
          /\ inputs[k].id = id
          /\ \A j \in 1..(k - 1) : inputs[j].id # id) - 1
  ELSE -1

\* Step 1 of a row: the caller's nodes with the INPUT values of row `row`.
TempNodes(ns, row) ==
  LET inputs == SortedInputs(ns)
  IN  Array([k \in 1..Len(ns) |->
         IF ns[k].type = "INPUT"
         THEN [ns[k] EXCEPT !.value =
                 Bit(row, Len(inputs) - 1 - FindIndex(inputs, ns[k].id))]
         ELSE ns[k]])

\* A Record<string, boolean> is the sequence of its [key, val] entries in
\* insertion order; assigning an existing key keeps its place.
RecPut(rec, key, val) ==
  IF \E k \in 1..Len(rec) : rec[k].key = key
  THEN [k \in 1..Len(rec) |->
          IF rec[k].key = key THEN [key |-> key, val |-> val] ELSE rec[k]]
  ELSE Append(rec, [key |-> key, val |-> val])

RECURSIVE RowInputs(_, _, _, _)
\* inputs.forEach((inp, idx) => rowInputs[inp.label] = bit), from idx on.
RowInputs(inputs, row, idx, rec) ==
  IF idx > Len(inputs) THEN rec
  ELSE RowInputs(inputs, row, idx + 1,
         RecPut(rec, inputs[idx].label, Bit(row, Len(inputs) - idx)))

RECURSIVE RowOutputs(_, _, _, _)
\* outputs.forEach(out => rowOutputs[out.label] = computedNode ? value : false)
RowOutputs(outputs, tempNodes, idx, rec) ==
  IF idx > Len(outputs) THEN rec
  ELSE LET computedNode == FindNode(tempNodes, outputs[idx].id)
       IN  RowOutputs(outputs, tempNodes, idx + 1,
             RecPut(rec, outputs[idx].label,
                    IF computedNode # << >> THEN computedNode[1].value ELSE FALSE))

\* The row pushed by iteration `row` of the for loop.
TableRow(ns, ws, row) ==
  LET tempNodes == simulateCircuit(TempNodes(ns, row), ws)
  IN  [inputs  |-> RowInputs(SortedInputs(ns), row, 1, << >>),
       outputs |-> RowOutputs(SortedOutputs(ns), tempNodes, 1, << >>)]

generateTruthTable(ns, ws) ==
  IF Len(SortedInputs(ns)) = 0 THEN << >>
  ELSE [r \in 1..NumRows(ns) |-> TableRow(ns, ws, r - 1)]

(* ------------------------------ expression ----------------------------- *)

\* A string as the pieces that make it up; the empty string has none.
Lit(s) == IF s = "" THEN << >> ELSE <<s>>

RECURSIVE Render(_)
Render(pieces) ==
  IF pieces = << >> THEN "" ELSE pieces[1] \o Render(Tail(pieces))

\* x || y on strings: y when x is the empty string.
OrElse(x, y) == IF x = << >> THEN y ELSE x

RECURSIVE buildExprRevisitAsLeaf(_, _, _, _)
\* buildExpr treating a node met again on the path as a leaf: its label or "?".
buildExprRevisitAsLeaf(ns, ws, nodeId, visited) ==
  LET node == FindNode(ns, nodeId)
  IN  IF node = << >> THEN <<"?">>
      ELSE IF nodeId \in visited THEN OrElse(Lit(node[1].label), <<"?">>)
      ELSE IF node[1].type = "INPUT" THEN Lit(node[1].label)
      ELSE
        LET inputWires == InputWires(nodeId, ws)
            sources == [k \in 1..Len(inputWires) |->
                          buildExprRevisitAsLeaf(ns, ws, inputWires[k].sourceNodeId,
                                                 visited \cup {nodeId})]
            a == IF Len(sources) >= 1 THEN OrElse(sources[1], <<"0">>) ELSE <<"0">>
            b == IF Len(sources) >= 2 THEN OrElse(sources[2], <<"0">>) ELSE <<"0">>
            type == node[1].type
        IN  IF Len(sources) = 0 THEN OrElse(Lit(node[1].label), <<"?">>)
            ELSE CASE type = "AND"    -> <<"(">> \o a \o <<" · ">> \o b \o <<")">>
                   [] type = "OR"     -> <<"(">> \o a \o <<" + ">> \o b \o <<")">>
                   [] type = "NOT"    -> <<"¬">> \o a
                   [] type = "NAND"   -> <<"¬(">> \o a \o <<" · ">> \o b \o <<")">>
                   [] type = "NOR"    -> <<"¬(">> \o a \o <<" + ">> \o b \o <<")">>
                   [] type = "XOR"    -> <<"(">> \o a \o <<" ⊕ ">> \o b \o <<")">>
                   [] type = "OUTPUT" -> OrElse(sources[1], <<"?">>)
                   [] OTHER           -> <<"?">>

RECURSIVE VisitedBy(_, _, _, _)
\* The ids a single shared visited set holds after expanding nodeId.
VisitedBy(ns, ws, nodeId, visited) ==
  IF nodeId \in visited THEN visited
  ELSE LET node == FindNode(ns, nodeId)
           inputWires == InputWires(nodeId, ws)
           seen == visited \cup {nodeId}
       IN  IF node = << >> \/ Len(inputWires) = 0 THEN seen
           ELSE IF node[1].type = "INPUT" THEN seen
           ELSE IF Len(inputWires) = 1
                THEN VisitedBy(ns, ws, inputWires[1].sourceNodeId, seen)
                ELSE VisitedBy(ns, ws, inputWires[2].sourceNodeId,
                               VisitedBy(ns, ws, inputWires[1].sourceNodeId, seen))

RECURSIVE buildExprSharedVisited(_, _, _, _)
\* buildExpr with one visited set shared by the branches of an expansion:
\* the second operand is expanded with what the first one visited.
buildExprSharedVisited(ns, ws, nodeId, visited) ==
  IF nodeId \in visited THEN <<"[LOOP]">>
  ELSE LET node == FindNode(ns, nodeId)
       IN  IF node = << >> THEN <<"?">>
           ELSE IF node[1].type = "INPUT" THEN Lit(node[1].label)
           ELSE
             LET inputWires == InputWires(nodeId, ws)
                 seen == visited \cup {nodeId}
                 sources == [k \in 1..Len(inputWires) |->
                               buildExprSharedVisited(ns, ws, inputWires[k].sourceNodeId,
                                 IF k = 1 THEN seen
                                 ELSE VisitedBy(ns, ws, inputWires[1].sourceNodeId, seen))]
                 a == IF Len(sources) >= 1 THEN OrElse(sources[1], <<"0">>) ELSE <<"0">>
                 b == IF Len(sources) >= 2 THEN OrElse(sources[2], <<"0">>) ELSE <<"0">>
                 type == node[1].type
             IN  IF Len(sources) = 0 THEN OrElse(Lit(node[1].label), <<"?">>)
                 ELSE CASE type = "AND"    -> <<"(">> \o a \o <<" · ">> \o b \o <<")">>
                        [] type = "OR"     -> <<"(">> \o a \o <<" + ">> \o b \o <<")">>
                        [] type = "NOT"    -> <<"¬">> \o a
                        [] type = "NAND"   -> <<"¬(">> \o a \o <<" · ">> \o b \o <<")">>
                        [] type = "NOR"    -> <<"¬(">> \o a \o <<" + ">> \o b \o <<")">>
                        [] type = "XOR"    -> <<"(">> \o a \o <<" ⊕ ">> \o b \o <<")">>
                        [] type = "OUTPUT" -> OrElse(sources[1], <<"?">>)
                        [] OTHER           -> <<"?">>

RECURSIVE buildExprSwapped(_, _, _, _)
\* buildExpr taking its operands in the opposite order.
buildExprSwapped(ns, ws, nodeId, visited) ==
  IF nodeId \in visited THEN <<"[LOOP]">>
  ELSE LET node == FindNode(ns, nodeId)
       IN  IF node = << >> THEN <<"?">>
           ELSE IF node[1].type = "INPUT" THEN Lit(node[1].label)
           ELSE
             LET inputWires == InputWires(nodeId, ws)
                 sources == [k \in 1..Len(inputWires) |->
                               buildExprSwapped(ns, ws, inputWires[k].sourceNodeId,
                                                visited \cup {nodeId})]
                 b == IF Len(sources) >= 1 THEN OrElse(sources[1], <<"0">>) ELSE <<"0">>
                 a == IF Len(sources) >= 2 THEN OrElse(sources[2], <<"0">>) ELSE <<"0">>
                 type == node[1].type
             IN  IF Len(sources) = 0 THEN OrElse(Lit(node[1].label), <<"?">>)
                 ELSE CASE type = "AND"    -> <<"(">> \o a \o <<" · ">> \o b \o <<")">>
                        [] type = "OR"     -> <<"(">> \o a \o <<" + ">> \o b \o <<")">>
                        [] type = "NOT"    -> <<"¬">> \o b
                        [] type = "NAND"   -> <<"¬(">> \o a \o <<" · ">> \o b \o <<")">>
                        [] type = "NOR"    -> <<"¬(">> \o a \o <<" + ">> \o b \o <<")">>
                        [] type = "XOR"    -> <<"(">> \o a \o <<" ⊕ ">> \o b \o <<")">>
                        [] type = "OUTPUT" -> OrElse(sources[1], <<"?">>)
                        [] OTHER           -> <<"?">>

RECURSIVE buildExprCurrentValue(_, _, _, _)
\* buildExpr folding the current value of an INPUT that is true into "1".
buildExprCurrentValue(ns, ws, nodeId, visited) ==
  IF nodeId \in visited THEN <<"[LOOP]">>
  ELSE LET node == FindNode(ns, nodeId)
       IN  IF node = << >> THEN <<"?">>
           ELSE IF node[1].type = "INPUT"
                THEN (IF node[1].value THEN <<"1">> ELSE Lit(node[1].label))
           ELSE
             LET inputWires == InputWires(nodeId, ws)
                 sources == [k \in 1..Len(inputWires) |->
                               buildExprCurrentValue(ns, ws, inputWires[k].sourceNodeId,
                                         visited \cup {nodeId})]
                 a == IF Len(sources) >= 1 THEN OrElse(sources[1], <<"0">>) ELSE <<"0">>
                 b == IF Len(sources) >= 2 THEN OrElse(sources[2], <<"0">>) ELSE <<"0">>
                 type == node[1].type
             IN  IF Len(sources) = 0 THEN OrElse(Lit(node[1].label), <<"?">>)
                 ELSE CASE type = "AND"    -> <<"(">> \o a \o <<" · ">> \o b \o <<")">>
                        [] type = "OR"     -> <<"(">> \o a \o <<" + ">> \o b \o <<")">>
                        [] type = "NOT"    -> <<"¬">> \o a
                        [] type = "NAND"   -> <<"¬(">> \o a \o <<" · ">> \o b \o <<")">>
                        [] type = "NOR"    -> <<"¬(">> \o a \o <<" + ">> \o b \o <<")">>
                        [] type = "XOR"    -> <<"(">> \o a \o <<" ⊕ ">> \o b \o <<")">>
                        [] type = "OUTPUT" -> OrElse(sources[1], <<"?">>)
                        [] OTHER           -> <<"?">>

RECURSIVE buildExprMissingAsPlaceholder(_, _, _, _)
\* buildExpr writing the placeholder "?" for a missing second operand.
buildExprMissingAsPlaceholder(ns, ws, nodeId, visited) ==
  IF nodeId \in visited THEN <<"[LOOP]">>
  ELSE LET node == FindNode(ns, nodeId)
       IN  IF node = << >> THEN <<"?">>
           ELSE IF node[1].type = "INPUT" THEN Lit(node[1].label)
           ELSE
             LET inputWires == InputWires(nodeId, ws)
                 sources == [k \in 1..Len(inputWires) |->
                               buildExprMissingAsPlaceholder(ns, ws, inputWires[k].sourceNodeId,
                                         visited \cup {nodeId})]
                 a == IF Len(sources) >= 1 THEN OrElse(sources[1], <<"0">>) ELSE <<"0">>
                 b == IF Len(sources) >= 2 THEN OrElse(sources[2], <<"?">>) ELSE <<"?">>
                 type == node[1].type
             IN  IF Len(sources) = 0 THEN OrElse(Lit(node[1].label), <<"?">>)
                 ELSE CASE type = "AND"    -> <<"(">> \o a \o <<" · ">> \o b \o <<")">>
                        [] type = "OR"     -> <<"(">> \o a \o <<" + ">> \o b \o <<")">>
                        [] type = "NOT"    -> <<"¬">> \o a
                        [] type = "NAND"   -> <<"¬(">> \o a \o <<" · ">> \o b \o <<")">>
                        [] type = "NOR"    -> <<"¬(">> \o a \o <<" + ">> \o b \o <<")">>
                        [] type = "XOR"    -> <<"(">> \o a \o <<" ⊕ ">> \o b \o <<")">>
                        [] type = "OUTPUT" -> OrElse(sources[1], <<"?">>)
                        [] OTHER           -> <<"?">>

RECURSIVE buildExpr(_, _, _, _)
buildExpr(ns, ws, nodeId, visited) ==
  IF nodeId \in visited THEN <<"[LOOP]">>
  ELSE LET node == FindNode(ns, nodeId)
       IN  IF node = << >> THEN <<"?">>
           ELSE IF node[1].type = "INPUT" THEN Lit(node[1].label)
           ELSE
             LET inputWires == InputWires(nodeId, ws)
                 sources == [k \in 1..Len(inputWires) |->
                               buildExpr(ns, ws, inputWires[k].sourceNodeId,
                                         visited \cup {nodeId})]
                 a == IF Len(sources) >= 1 THEN OrElse(sources[1], <<"0">>) ELSE <<"0">>
                 b == IF Len(sources) >= 2 THEN OrElse(sources[2], <<"0">>) ELSE <<"0">>
                 type == node[1].type
             IN  IF Len(sources) = 0 THEN OrElse(Lit(node[1].label), <<"?">>)
                 ELSE CASE type = "AND"    -> <<"(">> \o a \o <<" · ">> \o b \o <<")">>
                        [] type = "OR"     -> <<"(">> \o a \o <<" + ">> \o b \o <<")">>
                        [] type = "NOT"    -> <<"¬">> \o a
                        [] type = "NAND"   -> <<"¬(">> \o a \o <<" · ">> \o b \o <<")">>
                        [] type = "NOR"    -> <<"¬(">> \o a \o <<" + ">> \o b \o <<")">>
                        [] type = "XOR"    -> <<"(">> \o a \o <<" ⊕ ">> \o b \o <<")">>
                        [] type = "OUTPUT" -> OrElse(sources[1], <<"?">>)
                        [] OTHER           -> <<"?">>

RECURSIVE JoinOutputs(_, _, _)
\* outputs.map(out => `${out.label} = ${buildExpr(out.id, new Set())}`).join("; ")
JoinOutputs(ns, ws, outputs) ==
  IF outputs = << >> THEN << >>
  ELSE Lit(outputs[1].label) \o <<" = ">> \o buildExpr(ns, ws, outputs[1].id, {})
       \o (IF Len(outputs) > 1 THEN <<"; ">> ELSE << >>)
       \o JoinOutputs(ns, ws, Tail(outputs))

\* The outputs taken in label order, as generateTruthTable takes them.
generateExpressionSorted(ns, ws) ==
  LET outputs == SortedOutputs(ns)
  IN  IF Len(outputs) = 0 THEN <<"No Output">> ELSE JoinOutputs(ns, ws, outputs)

generateExpression(ns, ws) ==
  LET outputs == SelectSeq(ns, LAMBDA n : n.type = "OUTPUT")
  IN  IF Len(outputs) = 0 THEN <<"No Output">> ELSE JoinOutputs(ns, ws, outputs)

(* ------------------------------ circuits ------------------------------- *)

\* Input pins by kind: the editor draws none on an INPUT, one on a NOT and
\* an OUTPUT, two on the other gates.
Arity(type) ==
  IF type = "INPUT" THEN 0
  ELSE IF type \in {"NOT", "OUTPUT"} THEN 1 ELSE 2

InputLabels == <<"A", "B">>

OutputLabels == <<"Y0", "Y1">>

\* handleAddGate labels INPUT and OUTPUT nodes only.
LabelOf(type, choice) ==
  IF type = "INPUT" THEN InputLabels[choice]
  ELSE IF type = "OUTPUT" THEN OutputLabels[choice]
  ELSE ""

\* The kind lists of the circuits drawn: at most MaxDriven nodes other than
\* INPUT, at most MaxBinaryGates of them two-input gates.
Layouts(n) ==
  {ty \in [1..n -> GateType] :
     /\ Cardinality({k \in 1..n : ty[k] # "INPUT"}) <= MaxDriven
     /\ Cardinality({k \in 1..n : ty[k] \in BinaryGates}) <= MaxBinaryGates}

\* Label choices up to renaming: the second label of a class is used only
\* beside the first, and nodes that carry no label have one choice.
Labelings(ty) ==
  {lb \in [DOMAIN ty -> 1..2] :
     /\ \A k \in DOMAIN ty : ty[k] \notin {"INPUT", "OUTPUT"} => lb[k] = 1
     /\ \A k \in DOMAIN ty :
          lb[k] = 2 => \E j \in DOMAIN ty : ty[j] = ty[k] /\ lb[j] = 1}

RECURSIVE PinSlots(_, _)
\* The input pins of the nodes from k on, as <<node id, pin index>>.
PinSlots(ty, k) ==
  IF k > Len(ty) THEN << >>
  ELSE [p \in 1..Arity(ty[k]) |-> <<k, p - 1>>] \o PinSlots(ty, k + 1)

RECURSIVE WiresOf(_, _, _, _)
\* The wire list that drives slot s from node drv[s], 0 meaning no wire.
WiresOf(slots, drv, s, acc) ==
  IF s > Len(slots) THEN acc
  ELSE WiresOf(slots, drv, s + 1,
         IF drv[s] = 0 THEN acc
         ELSE Append(acc, [id |-> Len(acc) + 1,
                           sourceNodeId |-> drv[s],
                           targetNodeId |-> slots[s][1],
                           targetPinIndex |-> slots[s][2]]))

\* The analysis panel as it mounts.
PanelIdle ==
  /\ inputExpr = ""
  /\ isGenerating = FALSE
  /\ inFlight = << >>
  /\ requested = 0
  /\ alerts = 0

Idle ==
  /\ pc = "idle"
  /\ newNodes = << >>
  /\ changed = FALSE
  /\ iterations = 0
  /\ i = 0
  /\ table = << >>
  /\ expr = << >>

\* Any circuit of 1..MaxNodes nodes with ids 1..n, at most one wire per
\* input pin, sources among ids 1..MaxNodes (an id above n names no node).
Init ==
  /\ \E n \in 1..MaxNodes :
       \E ty \in Layouts(n) :
         \E lb \in Labelings(ty), vl \in [1..n -> BOOLEAN] :
           \E drv \in [1..Len(PinSlots(ty, 1)) -> 0..MaxNodes] :
             /\ nodes = [k \in 1..n |-> [id |-> k, type |-> ty[k],
                                         label |-> LabelOf(ty[k], lb[k]),
                                         value |-> vl[k]]]
             /\ wires = WiresOf(PinSlots(ty, 1), drv, 1, << >>)
  /\ Idle
  /\ now = 0
  /\ tempWireStart = null
  /\ PanelIdle
  /\ apiKey = TRUE

(* ------------------------ simulateCircuit, by pass --------------------- *)

SimBegin ==
  /\ pc = "idle"
  /\ pc' = "sim"
  /\ newNodes' = nodes
  /\ changed' = TRUE
  /\ iterations' = 0
  /\ UNCHANGED panelVars
  /\ UNCHANGED <<now, tempWireStart, nodes, wires, i, table, expr>>

\* The while loop without its iteration cap.
SimPassNoCap ==
  /\ pc = "sim"
  /\ changed
  /\ newNodes' = PassNodes(newNodes, wires)
  /\ changed' = PassChanged(newNodes, wires)
  /\ iterations' = iterations + 1
  /\ UNCHANGED panelVars
  /\ UNCHANGED <<now, tempWireStart, nodes, wires, pc, i, table, expr>>

SimPass ==
  /\ pc = "sim"
  /\ changed /\ iterations < MAX_ITERATIONS
  /\ newNodes' = PassNodes(newNodes, wires)
  /\ changed' = PassChanged(newNodes, wires)
  /\ iterations' = iterations + 1
  /\ UNCHANGED panelVars
  /\ UNCHANGED <<now, tempWireStart, nodes, wires, pc, i, table, expr>>

SimReturn ==
  /\ pc = "sim"
  /\ ~(changed /\ iterations < MAX_ITERATIONS)
  /\ pc' = "simDone"
  /\ UNCHANGED panelVars
  /\ UNCHANGED <<now, tempWireStart, nodes, wires, newNodes, changed, iterations, i, table, expr>>

(* ------------------------ generateTruthTable, by row ------------------- *)

TableBegin ==
  /\ pc = "idle"
  /\ pc' = IF Len(SortedInputs(nodes)) = 0 THEN "tableDone" ELSE "table"
  /\ i' = 0
  /\ table' = << >>
  /\ UNCHANGED panelVars
  /\ UNCHANGED <<now, tempWireStart, nodes, wires, newNodes, changed, iterations, expr>>

TableStep ==
  /\ pc = "table"
  /\ i < NumRows(nodes)
  /\ table' = Append(table, TableRow(nodes, wires, i))
  /\ i' = i + 1
  /\ UNCHANGED panelVars
  /\ UNCHANGED <<now, tempWireStart, nodes, wires, pc, newNodes, changed, iterations, expr>>

TableReturn ==
  /\ pc = "table"
  /\ ~(i < NumRows(nodes))
  /\ pc' = "tableDone"
  /\ UNCHANGED panelVars
  /\ UNCHANGED <<now, tempWireStart, nodes, wires, newNodes, changed, iterations, i, table, expr>>

(* ------------------------ generateExpression --------------------------- *)

ExprCall ==
  /\ pc = "idle"
  /\ pc' = "exprDone"
  /\ expr' = generateExpression(nodes, wires)
  /\ UNCHANGED panelVars
  /\ UNCHANGED <<now, tempWireStart, nodes, wires, newNodes, changed, iterations, i, table>>

Next ==
  \/ SimBegin
  \/ SimPass
  \/ SimReturn
  \/ TableBegin
  \/ TableStep
  \/ TableReturn
  \/ ExprCall

Spec == Init /\ [][Next]_vars

(* ------------------------------ a deep circuit ------------------------- *)

\* The NOT gates of the chain: as many as simulateCircuit makes passes.
DeepGates == MAX_ITERATIONS

\* An acyclic chain: the INPUT A, DeepGates NOT gates each reading the node
\* before it, and the OUTPUT Y0 reading the last of them; the INPUT has
\* either value and the other nodes all have the same value, either one.
DeepInit ==
  /\ \E a, v \in BOOLEAN :
       nodes = [k \in 1..(DeepGates + 2) |->
                  [id    |-> k,
                   type  |-> IF k = 1 THEN "INPUT"
                             ELSE IF k = DeepGates + 2 THEN "OUTPUT" ELSE "NOT",
                   label |-> IF k = 1 THEN "A"
                             ELSE IF k = DeepGates + 2 THEN "Y0" ELSE "",
                   value |-> IF k = 1 THEN a ELSE v]]
  /\ wires = [k \in 1..(DeepGates + 1) |->
                [id |-> k, sourceNodeId |-> k, targetNodeId |-> k + 1,
                 targetPinIndex |-> 0]]
  /\ Idle
  /\ now = 0
  /\ tempWireStart = null
  /\ PanelIdle
  /\ apiKey = TRUE

\* simulateCircuit and generateTruthTable on the deep chain.
DeepNext ==
  \/ SimBegin
  \/ SimPass
  \/ SimReturn
  \/ TableBegin
  \/ TableStep
  \/ TableReturn

DeepSpec == DeepInit /\ [][DeepNext]_vars

(* ------------------------------ the editor ----------------------------- *)

\* String.fromCharCode(65 + k)
fromCharCode65(k) == <<"A", "B", "C", "D">>[k + 1]

\* `Y${k}`
OutputLabel(k) == <<"Y0", "Y1", "Y2", "Y3">>[k + 1]

CountType(ns, type) == Len(SelectSeq(ns, LAMBDA n : n.type = type))

\* The pins Canvas renders on a node: input pins 0..Arity-1 and, except on
\* an OUTPUT node, output pin 0.
Pins(n) ==
  {[nodeId |-> n.id, pinIndex |-> p, type |-> "input"] :
      p \in 0..(Arity(n.type) - 1)}
  \cup (IF n.type = "OUTPUT" THEN {}
        ELSE {[nodeId |-> n.id, pinIndex |-> 0, type |-> "output"]})

\* The room left for one more node of the kind within the bounds.
Room(ns, type) ==
  /\ Len(ns) < MaxNodes
  /\ type # "INPUT" => Len(ns) - CountType(ns, "INPUT") < MaxDriven
  /\ type \in BinaryGates =>
       Cardinality({k \in 1..Len(ns) : ns[k].type \in BinaryGates})
         < MaxBinaryGates

\* App mounts with no nodes and no wires; its effect has yet to run.
AppInit ==
  /\ nodes = << >>
  /\ wires = << >>
  /\ pc = "effect"
  /\ newNodes = << >>
  /\ changed = FALSE
  /\ iterations = 0
  /\ i = 0
  /\ table = << >>
  /\ expr = << >>
  /\ now = 0
  /\ tempWireStart = null

\* Dropping a gate of the palette on the canvas.  Date.now() is a clock
\* that has advanced since the last id was made.
handleAddGate(type) ==
  /\ pc = "rendered"
  /\ now < MaxClock
  /\ Room(nodes, type)
  /\ LET inputCount  == CountType(nodes, "INPUT")
         outputCount == CountType(nodes, "OUTPUT")
         label == IF type = "INPUT" THEN fromCharCode65(inputCount)
                  ELSE IF type = "OUTPUT" THEN OutputLabel(outputCount)
                  ELSE ""
     IN  nodes' = Append(nodes, [id |-> now + 1, type |-> type,
                                 label |-> label, value |-> FALSE])
  /\ now' = now + 1
  /\ pc' = "effect"
  /\ UNCHANGED panelVars
  /\ UNCHANGED <<wires, tempWireStart, newNodes, changed, iterations, i,
                 table, expr>>

\* A click on an INPUT node.  The mouse-up of a click has reached
\* handleMouseUp, so no wire is being drawn.
handleToggleInput(id) ==
  /\ pc = "rendered"
  /\ tempWireStart = null
  /\ \E k \in 1..Len(nodes) : nodes[k].id = id /\ nodes[k].type = "INPUT"
  /\ nodes' = [k \in 1..Len(nodes) |->
                 IF nodes[k].id = id /\ nodes[k].type = "INPUT"
                 THEN [nodes[k] EXCEPT !.value = ~nodes[k].value]
                 ELSE nodes[k]]
  /\ pc' = "effect"
  /\ UNCHANGED panelVars
  /\ UNCHANGED <<wires, tempWireStart, newNodes, changed, iterations, i,
                 table, expr, now>>

\* A click on the delete button of a node.
deleteNode(id) ==
  /\ pc = "rendered"
  /\ tempWireStart = null
  /\ \E k \in 1..Len(nodes) : nodes[k].id = id
  /\ nodes' = SelectSeq(nodes, LAMBDA n : n.id # id)
  /\ wires' = SelectSeq(wires, LAMBDA w : w.sourceNodeId # id
                                          /\ w.targetNodeId # id)
  /\ pc' = "effect"
  /\ UNCHANGED panelVars
  /\ UNCHANGED <<tempWireStart, newNodes, changed, iterations, i, table,
                 expr, now>>

\* The context menu of a wire.
deleteWire(id) ==
  /\ pc = "rendered"
  /\ tempWireStart = null
  /\ \E k \in 1..Len(wires) : wires[k].id = id
  /\ wires' = SelectSeq(wires, LAMBDA w : w.id # id)
  /\ pc' = "effect"
  /\ UNCHANGED panelVars
  /\ UNCHANGED <<nodes, tempWireStart, newNodes, changed, iterations, i,
                 table, expr, now>>

handlePinMouseDown(pin) ==
  /\ pc = "rendered"
  /\ \E k \in 1..Len(nodes) : pin \in Pins(nodes[k])
  /\ tempWireStart' = <<pin>>
  /\ UNCHANGED panelVars
  /\ UNCHANGED <<nodes, wires, pc, newNodes, changed, iterations, i, table,
                 expr, now>>

\* The new wire always added at the end of the list.
ConnectAppend(ws, source, target, t) ==
  Append(ws, [id |-> t, sourceNodeId |-> source.nodeId,
              targetNodeId |-> target.nodeId,
              targetPinIndex |-> target.pinIndex])

\* The wire list after a wire from source to target was made at time t: it
\* takes the place of the wire that ends at the target pin, if there is one.
Connect(ws, source, target, t) ==
  LET newWire == [id |-> t, sourceNodeId |-> source.nodeId,
                  targetNodeId |-> target.nodeId,
                  targetPinIndex |-> target.pinIndex]
      occupied(w) == /\ w.targetNodeId = target.nodeId
                     /\ w.targetPinIndex = target.pinIndex
  IN  IF \E k \in 1..Len(ws) : occupied(ws[k])
      THEN LET exists == ws[CHOOSE k \in 1..Len(ws) :
                              /\ occupied(ws[k])
                              /\ \A j \in 1..(k - 1) : ~occupied(ws[j])]
           IN  [k \in 1..Len(ws) |->
                  IF ws[k].id = exists.id THEN newWire ELSE ws[k]]
      ELSE Append(ws, newWire)

handlePinMouseUp(pin) ==
  /\ pc = "rendered"
  /\ \E k \in 1..Len(nodes) : pin \in Pins(nodes[k])
  /\ tempWireStart # null
  /\ IF tempWireStart[1].nodeId = pin.nodeId \/ tempWireStart[1].type = pin.type
     THEN UNCHANGED <<wires, tempWireStart, now, pc>>
     ELSE /\ now < MaxClock
          /\ LET source == IF tempWireStart[1].type = "output"
                           THEN tempWireStart[1] ELSE pin
                 target == IF tempWireStart[1].type = "input"
                           THEN tempWireStart[1] ELSE pin
             IN  wires' = Connect(wires, source, target, now + 1)
          /\ now' = now + 1
          /\ tempWireStart' = null
          /\ pc' = "effect"
  /\ UNCHANGED panelVars
  /\ UNCHANGED <<nodes, newNodes, changed, iterations, i, table, expr>>

\* A mouse-up or mouse-leave on the canvas.
handleMouseUp ==
  /\ pc = "rendered"
  /\ tempWireStart # null
  /\ tempWireStart' = null
  /\ UNCHANGED panelVars
  /\ UNCHANGED <<nodes, wires, pc, newNodes, changed, iterations, i, table,
                 expr, now>>

\* The effect of App, due after a render in which the node count, the
\* wires or a node value changed: it simulates, writes the values back when
\* one differs, and sets the truth table and the expression.
SimulationEffect ==
  /\ pc = "effect"
  /\ \E simulatedNodes \in {simulateCircuit(nodes, wires)} :
       \E hasChanges \in {\E k \in 1..Len(simulatedNodes) :
                             simulatedNodes[k].value # nodes[k].value} :
         /\ nodes' = IF hasChanges THEN simulatedNodes ELSE nodes
         /\ table' = generateTruthTable(simulatedNodes, wires)
         /\ expr' = generateExpression(simulatedNodes, wires)
         /\ pc' = IF hasChanges THEN "effect" ELSE "rendered"
  /\ UNCHANGED panelVars
  /\ UNCHANGED <<wires, newNodes, changed, iterations, i, now, tempWireStart>>

EditorInit == AppInit /\ PanelIdle /\ apiKey = TRUE

EditorNext ==
  \/ \E type \in GateType : handleAddGate(type)
  \/ \E id \in 1..MaxClock : handleToggleInput(id)
  \/ \E id \in 1..MaxClock : deleteNode(id)
  \/ \E id \in 1..MaxClock : deleteWire(id)
  \/ \E k \in 1..Len(nodes) : \E pin \in Pins(nodes[k]) : handlePinMouseDown(pin)
  \/ \E k \in 1..Len(nodes) : \E pin \in Pins(nodes[k]) : handlePinMouseUp(pin)
  \/ handleMouseUp
  \/ SimulationEffect

EditorSpec == EditorInit /\ [][EditorNext]_vars

\* The editor building circuits of INPUT nodes, NOT gates and OR gates,
\* without deletions.
EffectNext ==
  \/ \E type \in {"INPUT", "NOT", "OR"} : handleAddGate(type)
  \/ \E id \in 1..MaxClock : handleToggleInput(id)
  \/ \E k \in 1..Len(nodes) : \E pin \in Pins(nodes[k]) : handlePinMouseDown(pin)
  \/ \E k \in 1..Len(nodes) : \E pin \in Pins(nodes[k]) : handlePinMouseUp(pin)
  \/ handleMouseUp
  \/ SimulationEffect

\* React runs an effect that is due: it is never left pending for ever.
EffectSpec == EditorInit /\ [][EffectNext]_vars /\ WF_vars(SimulationEffect)

(* ------------------------------ the circuit generator ------------------ *)

\* The texts typed into the input of the panel: none, a blank, an expression.
Texts == {"", " ", "A"}

\* String.prototype.trim on those texts.
trim(text) == IF text = " " THEN "" ELSE text

\* The circuits the service describes: an OUTPUT that reads an INPUT, and an
\* OUTPUT that reads a NOT gate that reads an INPUT.  A described node has
\* no value and a described wire no id.
Described ==
  { [nodes |-> <<[id |-> 1, type |-> "INPUT", label |-> "A"],
                 [id |-> 2, type |-> "OUTPUT", label |-> "Y0"]>>,
     wires |-> <<[sourceNodeId |-> 1, targetNodeId |-> 2, targetPinIndex |-> 0]>>],
    [nodes |-> <<[id |-> 1, type |-> "INPUT", label |-> "A"],
                 [id |-> 2, type |-> "NOT", label |-> ""],
                 [id |-> 3, type |-> "OUTPUT", label |-> "Y0"]>>,
     wires |-> <<[sourceNodeId |-> 1, targetNodeId |-> 2, targetPinIndex |-> 0],
                 [sourceNodeId |-> 2, targetNodeId |-> 3, targetPinIndex |-> 0]>>] }

\* What a request to the service comes to: generateContent throws; or it
\* returns a response whose text is empty, is no JSON, is JSON without a
\* node list (data is then << >>), or is JSON that describes a circuit.
Responses ==
  { [kind |-> k, data |-> << >>] : k \in {"throws", "empty", "garbage", "json"} }
  \cup { [kind |-> "json", data |-> <<d>>] : d \in Described }

\* The circuit of an empty response: no nodes and no wires.
parseExpressionToCircuitEmptyAsCircuit(key, response) ==
  IF ~key THEN null
  ELSE IF response.kind = "throws" THEN null
  ELSE IF response.kind = "empty" THEN <<[nodes |-> << >>, wires |-> << >>]>>
  ELSE IF response.kind = "garbage" THEN null
  ELSE IF response.data = << >> THEN null
  ELSE LET data == response.data[1]
       IN  <<[nodes |-> Array([k \in 1..Len(data.nodes) |->
                                 [id |-> data.nodes[k].id,
                                  type |-> data.nodes[k].type,
                                  label |-> data.nodes[k].label,
                                  value |-> FALSE]]),
              wires |-> Array([idx \in 1..Len(data.wires) |->
                                 [id |-> idx - 1,
                                  sourceNodeId |-> data.wires[idx].sourceNodeId,
                                  targetNodeId |-> data.wires[idx].targetNodeId,
                                  targetPinIndex |-> data.wires[idx].targetPinIndex]])]>>

\* What the service resolves to, null or a circuit as a sequence of length
\* one, given whether the API key is set and what the request comes to.
\* Every throw inside the try block is caught and gives null.
parseExpressionToCircuit(key, response) ==
  IF ~key THEN null
  ELSE IF response.kind = "throws" THEN null
  ELSE IF response.kind = "empty" THEN null
  ELSE IF response.kind = "garbage" THEN null
  ELSE IF response.data = << >> THEN null
  ELSE LET data == response.data[1]
       IN  <<[nodes |-> Array([k \in 1..Len(data.nodes) |->
                                 [id |-> data.nodes[k].id,
                                  type |-> data.nodes[k].type,
                                  label |-> data.nodes[k].label,
                                  value |-> FALSE]]),
              wires |-> Array([idx \in 1..Len(data.wires) |->
                                 [id |-> idx - 1,
                                  sourceNodeId |-> data.wires[idx].sourceNodeId,
                                  targetNodeId |-> data.wires[idx].targetNodeId,
                                  targetPinIndex |-> data.wires[idx].targetPinIndex]])]>>

\* The sequence without its k-th element.
RemoveAt(seq, k) == SubSeq(seq, 1, k - 1) \o SubSeq(seq, k + 1, Len(seq))

PanelInit == AppInit /\ PanelIdle /\ apiKey \in BOOLEAN

\* onChange of the input.
setInputExpr(text) ==
  /\ pc = "rendered"
  /\ text # inputExpr
  /\ inputExpr' = text
  /\ UNCHANGED <<nodes, wires, pc, newNodes, changed, iterations, i, table,
                 expr, now, tempWireStart, isGenerating, inFlight, requested,
                 alerts, apiKey>>

\* handleGenerate up to its await, on Enter in the input or a click on
\* Build: the request it makes is in flight with what it will come to.
handleGenerate(response) ==
  /\ pc = "rendered"
  /\ requested < MaxRequests
  /\ IF trim(inputExpr) = ""
     THEN UNCHANGED <<isGenerating, inFlight, requested>>
     ELSE /\ isGenerating' = TRUE
          /\ requested' = requested + 1
          /\ inFlight' = Append(inFlight, [n |-> requested + 1,
                                           expression |-> inputExpr,
                                           response |-> response])
  /\ UNCHANGED <<nodes, wires, pc, newNodes, changed, iterations, i, table,
                 expr, now, tempWireStart, inputExpr, alerts, apiKey>>

\* handleGenerate from its await on, when the k-th request in flight
\* completes: the flag is lowered and the result is imported
\* (handleImportCircuit) or, when it is null, the failure is alerted.
handleGenerateResume(k) ==
  /\ pc = "rendered"
  /\ k \in 1..Len(inFlight)
  /\ LET result == parseExpressionToCircuit(apiKey, inFlight[k].response)
     IN  /\ isGenerating' = FALSE
         /\ inFlight' = RemoveAt(inFlight, k)
         /\ IF result # null
            THEN /\ nodes' = result[1].nodes
                 /\ wires' = result[1].wires
                 /\ pc' = "effect"
                 /\ alerts' = alerts
            ELSE /\ alerts' = alerts + 1
                 /\ UNCHANGED <<nodes, wires, pc>>
  /\ UNCHANGED <<newNodes, changed, iterations, i, table, expr, now,
                 tempWireStart, inputExpr, requested, apiKey>>

PanelNext ==
  \/ \E text \in Texts : setInputExpr(text)
  \/ \E response \in Responses : handleGenerate(response)
  \/ \E k \in 1..MaxRequests : handleGenerateResume(k)
  \/ SimulationEffect

PanelSpec == PanelInit /\ [][PanelNext]_vars

(* ------------------------------ claims --------------------------------- *)

\* C1: for any circuit, cyclic and oscillating ones included, a call of
\* simulateCircuit never takes more than 50 passes; every step it takes is
\* the return or uses up one of the 50 passes, so that it returns; and what
\* it returns is a value assignment to the caller's nodes.
C1_Terminates ==
  /\ [](iterations <= 50)
  /\ [][pc = "sim" => (pc' = "simDone" \/ (pc' = "sim" /\ iterations' = iterations + 1))]_vars
  /\ [](pc = "simDone" =>
          /\ Len(newNodes) = Len(nodes)
          /\ \A k \in 1..Len(nodes) :
               /\ newNodes[k].id = nodes[k].id
               /\ newNodes[k].value \in BOOLEAN)

\* A NOT gate fed by its own output has oscillated up to the cap and returned.
C1_Witness ==
  /\ pc = "simDone"
  /\ iterations = 50
  /\ changed
  /\ \E k \in 1..Len(nodes) :
       /\ nodes[k].type = "NOT"
       /\ \E w \in 1..Len(wires) :
            wires[w].targetNodeId = nodes[k].id /\ wires[w].sourceNodeId = nodes[k].id


(* ------------------------------ graph ---------------------------------- *)

NodeIds(ns) == {ns[k].id : k \in 1..Len(ns)}

NodeById(ns, id) == ns[CHOOSE k \in 1..Len(ns) : ns[k].id = id]

\* s drives t: a wire from the node s to an input pin of the node t, t not
\* an INPUT.
Edge(ns, ws, s, t) ==
  /\ s \in NodeIds(ns)
  /\ t \in NodeIds(ns)
  /\ NodeById(ns, t).type # "INPUT"
  /\ \E w \in 1..Len(ws) :
       /\ ws[w].sourceNodeId = s
       /\ ws[w].targetNodeId = t
       /\ ws[w].targetPinIndex < 2

RECURSIVE DriversClosure(_, _, _)
DriversClosure(ns, ws, S) ==
  LET more == S \cup {s \in NodeIds(ns) : \E t \in S : Edge(ns, ws, s, t)}
  IN  IF more = S THEN S ELSE DriversClosure(ns, ws, more)

\* The nodes t depends on through one wire or more.
Ancestors(ns, ws, t) ==
  DriversClosure(ns, ws, {s \in NodeIds(ns) : Edge(ns, ws, s, t)})

OnCycle(ns, ws, v) == v \in Ancestors(ns, ws, v)

RECURSIVE Peel(_, _, _)
\* What is left of the set S of node ids when the nodes that no node of S
\* drives are taken away, again and again.
Peel(ns, ws, S) ==
  LET driven == {t \in S : \E w \in 1..Len(ws) :
                             /\ ws[w].targetNodeId = t
                             /\ ws[w].sourceNodeId \in S
                             /\ ws[w].targetPinIndex < 2
                             /\ NodeById(ns, t).type # "INPUT"}
  IN  IF driven = S THEN S ELSE Peel(ns, ws, driven)

\* No node depends on itself: taking away the undriven nodes leaves none.
Acyclic(ns, ws) == Peel(ns, ws, NodeIds(ns)) = {}

\* The same, node by node.
AcyclicByNode(ns, ws) == \A v \in NodeIds(ns) : ~OnCycle(ns, ws, v)

\* Every non-INPUT node carries the value of its gate on its drivers' values.
FixedPoint(ns, ws) ==
  \A k \in 1..Len(ns) :
     ns[k].type # "INPUT" => NewValue(ns[k], ws, ns) = ns[k].value

\* The value on pin p of the node t, an unwired pin or a wire from no node
\* read as false.
PinTrue(ns, ws, t, p) ==
  \E w \in 1..Len(ws) :
     /\ ws[w].targetNodeId = t
     /\ ws[w].targetPinIndex = p
     /\ \E k \in 1..Len(ns) : ns[k].id = ws[w].sourceNodeId /\ ns[k].value

\* The table of section 4.2 of the specification.
GateTable(type, a, b) ==
  CASE type = "AND"    -> a /\ b
    [] type = "OR"     -> a \/ b
    [] type = "NAND"   -> ~(a /\ b)
    [] type = "NOR"    -> ~(a \/ b)
    [] type = "XOR"    -> a # b
    [] type = "NOT"    -> ~a
    [] type = "OUTPUT" -> a

\* C2: in every pass, every non-INPUT node gets the value of the table for
\* its kind on its two pins, an absent input read as false.
C2_GateTable ==
  [][(pc = "sim" /\ pc' = "sim") =>
       \A k \in 1..Len(newNodes) :
          newNodes[k].type # "INPUT" =>
            newNodes'[k].value =
              GateTable(newNodes[k].type,
                        PinTrue(newNodes, wires, newNodes[k].id, 0),
                        PinTrue(newNodes, wires, newNodes[k].id, 1))]_vars

\* A pass has run on a circuit with a NAND whose pin 0 is unwired and whose
\* pin 1 carries true, and with a node whose pin 0 carries false.
C2_Witness ==
  /\ pc = "sim"
  /\ iterations = 1
  /\ \E k \in 1..Len(nodes) :
       /\ nodes[k].type = "NAND"
       /\ ~\E w \in 1..Len(wires) :
             wires[w].targetNodeId = nodes[k].id /\ wires[w].targetPinIndex = 0
       /\ PinTrue(nodes, wires, nodes[k].id, 1)
       /\ newNodes[k].value
  /\ \E k \in 1..Len(nodes), w \in 1..Len(wires) :
       /\ wires[w].targetNodeId = nodes[k].id
       /\ wires[w].targetPinIndex = 0
       /\ wires[w].sourceNodeId \in NodeIds(nodes)
       /\ ~PinTrue(nodes, wires, nodes[k].id, 0)

\* C3: on an acyclic circuit the loop is at a fixed point once it has made
\* as many passes as there are nodes, and whenever it returns; it never makes
\* more than one pass beyond that.
C3_AcyclicSettles ==
  (pc \in {"sim", "simDone"} /\ Acyclic(nodes, wires)) =>
     /\ iterations <= Len(nodes) + 1
     /\ (iterations >= Len(nodes) \/ pc = "simDone") => FixedPoint(newNodes, wires)

\* An acyclic chain needed every one of its |nodes| passes: the last of them
\* still changed a value.
C3_Witness ==
  /\ pc = "sim"
  /\ Acyclic(nodes, wires)
  /\ Len(nodes) >= 2
  /\ iterations = Len(nodes)
  /\ changed
  /\ FixedPoint(newNodes, wires)

\* C4: on an acyclic circuit, simulateCircuit applied to what simulateCircuit
\* returned returns the same value for every node.
C4_Idempotent ==
  (pc = "simDone" /\ Acyclic(nodes, wires)) =>
     simulateCircuit(newNodes, wires) = newNodes

\* The first call changed values on an acyclic circuit with wires.
C4_Witness ==
  /\ pc = "simDone"
  /\ Acyclic(nodes, wires)
  /\ Len(wires) >= 2
  /\ \E k \in 1..Len(nodes) : newNodes[k].value # nodes[k].value
  /\ simulateCircuit(newNodes, wires) = newNodes

NumInputs(ns) == Cardinality({k \in 1..Len(ns) : ns[k].type = "INPUT"})

\* C5: generateTruthTable returns 2^n rows for n >= 1 INPUT nodes and no row
\* for n = 0, on cyclic circuits as well; while it runs it has pushed one row
\* per index below i and i does not pass 2^n.
C5_RowCount ==
  /\ pc = "tableDone" =>
        Len(table) = IF NumInputs(nodes) = 0 THEN 0 ELSE 2 ^ NumInputs(nodes)
  /\ pc = "table" => Len(table) = i /\ i <= 2 ^ NumInputs(nodes)

\* A circuit with a feedback loop and two INPUT nodes got its four rows.
C5_Witness ==
  /\ pc = "tableDone"
  /\ NumInputs(nodes) = 2
  /\ ~Acyclic(nodes, wires)
  /\ Len(table) = 4


(* ------------------------------ claims: expression --------------------- *)

HasMarker(pieces) == \E k \in 1..Len(pieces) : pieces[k] = "[LOOP]"

MarkerCount(pieces) == Cardinality({k \in 1..Len(pieces) : pieces[k] = "[LOOP]"})

Outputs(ns) == {k \in 1..Len(ns) : ns[k].type = "OUTPUT"}

\* The output node, or a node it depends on, depends on itself.
ReachesCycle(ns, ws, o) ==
  \E v \in Ancestors(ns, ws, o) \cup {o} : OnCycle(ns, ws, v)

\* The wire into pin p of the node t, as a sequence of length at most one.
PinWire(ws, t, p) ==
  SelectSeq(ws, LAMBDA w : w.targetNodeId = t /\ w.targetPinIndex = p)

RECURSIVE Revisits(_, _, _, _)
\* How many times the backward walk from id comes to a node that is already
\* on its path, walks being cut there, at INPUT nodes and at absent nodes.
Revisits(ns, ws, id, path) ==
  IF id \in path THEN 1
  ELSE IF id \notin NodeIds(ns) THEN 0
  ELSE IF NodeById(ns, id).type = "INPUT" THEN 0
  ELSE LET w0 == PinWire(ws, id, 0)
           w1 == PinWire(ws, id, 1)
       IN  (IF w0 = << >> THEN 0
            ELSE Revisits(ns, ws, w0[1].sourceNodeId, path \cup {id}))
         + (IF w1 = << >> THEN 0
            ELSE Revisits(ns, ws, w1[1].sourceNodeId, path \cup {id}))

RECURSIVE SumRevisits(_, _, _)
SumRevisits(ns, ws, k) ==
  IF k > Len(ns) THEN 0
  ELSE (IF ns[k].type = "OUTPUT" THEN Revisits(ns, ws, ns[k].id, {}) ELSE 0)
       + SumRevisits(ns, ws, k + 1)

\* The circuit of concrete case 3: the only OUTPUT o reads an AND gate g whose
\* pin 0 comes from the INPUT a and whose pin 1 comes from g itself.
SelfFedAnd(ns, ws, o, g, a) ==
  /\ Outputs(ns) = {o}
  /\ ns[g].type = "AND"
  /\ ns[a].type = "INPUT"
  /\ PinWire(ws, ns[o].id, 0) # << >>
  /\ PinWire(ws, ns[o].id, 0)[1].sourceNodeId = ns[g].id
  /\ PinWire(ws, ns[g].id, 0) # << >>
  /\ PinWire(ws, ns[g].id, 0)[1].sourceNodeId = ns[a].id
  /\ PinWire(ws, ns[g].id, 1) # << >>
  /\ PinWire(ws, ns[g].id, 1)[1].sourceNodeId = ns[g].id

\* C8: generateExpression returns on every circuit, with feedback or not;
\* its result holds one loop marker for each time the walk back from an
\* OUTPUT comes to a node already on its path, so an OUTPUT that depends on a
\* cycle shows the marker; and the self-fed AND of concrete case 3 gives
\* "<label> = (<input> · [LOOP])", the marker as second operand.
C8_LoopMarker ==
  pc = "exprDone" =>
    /\ MarkerCount(expr) = SumRevisits(nodes, wires, 1)
    /\ (\E o \in Outputs(nodes) : ReachesCycle(nodes, wires, nodes[o].id))
          => HasMarker(expr)
    /\ \A o, g, a \in 1..Len(nodes) :
          SelfFedAnd(nodes, wires, o, g, a) =>
            Render(expr) = nodes[o].label \o " = (" \o nodes[a].label \o " · [LOOP])"

\* Concrete case 3 has been synthesized.
C8_Witness ==
  /\ pc = "exprDone"
  /\ \E o, g, a \in 1..Len(nodes) : SelfFedAnd(nodes, wires, o, g, a)
  /\ Render(expr) = "Y0 = (A · [LOOP])"

\* C9: a loop marker appears only when an OUTPUT depends on a node that is
\* its own ancestor along the wires; on an acyclic circuit, reconvergent ones
\* included, there is none.
C9_PathScoped ==
  (pc = "exprDone" /\ HasMarker(expr)) =>
     \E o \in Outputs(nodes) : ReachesCycle(nodes, wires, nodes[o].id)

\* An acyclic circuit in which an OUTPUT reaches the same INPUT along the two
\* pins of a gate has been synthesized, without a marker.
C9_Witness ==
  /\ pc = "exprDone"
  /\ Acyclic(nodes, wires)
  /\ \E o \in Outputs(nodes), g, a \in 1..Len(nodes) :
       /\ nodes[g].id \in Ancestors(nodes, wires, nodes[o].id)
       /\ nodes[a].type = "INPUT"
       /\ PinWire(wires, nodes[g].id, 0) # << >>
       /\ PinWire(wires, nodes[g].id, 0)[1].sourceNodeId = nodes[a].id
       /\ PinWire(wires, nodes[g].id, 1) # << >>
       /\ PinWire(wires, nodes[g].id, 1)[1].sourceNodeId = nodes[a].id
  /\ ~HasMarker(expr)
  /\ Render(expr) = "Y0 = (A ⊕ A)"

\* The notation of section 4.4 of the specification.
Notation(type, a, b) ==
  CASE type = "AND"    -> <<"(">> \o a \o <<" · ">> \o b \o <<")">>
    [] type = "OR"     -> <<"(">> \o a \o <<" + ">> \o b \o <<")">>
    [] type = "NAND"   -> <<"¬(">> \o a \o <<" · ">> \o b \o <<")">>
    [] type = "NOR"    -> <<"¬(">> \o a \o <<" + ">> \o b \o <<")">>
    [] type = "XOR"    -> <<"(">> \o a \o <<" ⊕ ">> \o b \o <<")">>
    [] type = "NOT"    -> <<"¬">> \o a
    [] type = "OUTPUT" -> a

\* Every input pin the kind of node k has is driven by a wire.
PinsDriven(ns, ws, k) ==
  \A p \in 0..(Arity(ns[k].type) - 1) : PinWire(ws, ns[k].id, p) # << >>

\* The expansion of the source of pin p of node k, on the path `path`.
PinExpr(ns, ws, k, p, path) ==
  IF PinWire(ws, ns[k].id, p) = << >> THEN << >>
  ELSE buildExpr(ns, ws, PinWire(ws, ns[k].id, p)[1].sourceNodeId, path)

\* C10: where the only OUTPUT o reads a node g, the result is "<label> = "
\* followed by the label of g when g is an INPUT and, when g is a gate with
\* its pins driven, by the notation of its kind on the expansions a of its
\* pin 0 source and b of its pin 1 source.
C10_Notation ==
  pc = "exprDone" =>
    \A o, g \in 1..Len(nodes) :
       ( /\ Outputs(nodes) = {o}
         /\ PinWire(wires, nodes[o].id, 0) # << >>
         /\ PinWire(wires, nodes[o].id, 0)[1].sourceNodeId = nodes[g].id
         /\ g # o
         /\ PinsDriven(nodes, wires, g) )
       => expr = Lit(nodes[o].label) \o <<" = ">> \o
                 (IF nodes[g].type = "INPUT" THEN Lit(nodes[g].label)
                  ELSE Notation(nodes[g].type,
                         PinExpr(nodes, wires, g, 0, {nodes[o].id, nodes[g].id}),
                         PinExpr(nodes, wires, g, 1, {nodes[o].id, nodes[g].id})))

\* A NOR with two different operands has been synthesized.
C10_Witness ==
  /\ pc = "exprDone"
  /\ \E o, g \in 1..Len(nodes) :
       /\ Outputs(nodes) = {o}
       /\ nodes[g].type = "NOR"
       /\ PinsDriven(nodes, wires, g)
       /\ PinWire(wires, nodes[o].id, 0) # << >>
       /\ PinWire(wires, nodes[o].id, 0)[1].sourceNodeId = nodes[g].id
  /\ Render(expr) = "Y0 = ¬(A + [LOOP])"


(* ------------------------------ claims: truth table -------------------- *)

\* The value the record gives the key: that of its entry with the key.
\* The table of the circuit in nodes and wires is complete: generateTruthTable
\* has returned, or the effect has set the table and left the values as
\* they were.
TableReady == pc \in {"tableDone", "rendered"}

RecGet(rec, key) == rec[CHOOSE k \in 1..Len(rec) : rec[k].key = key].val

RecHas(rec, key) == \E k \in 1..Len(rec) : rec[k].key = key

\* C6: the rows are those of the indices 0..2^n-1 in ascending order; row i
\* maps one entry per INPUT node, the j-th INPUT node in label-ascending
\* order (j from 0) getting bit n-1-j of i, so that the entries read as the
\* n-bit binary representation of i.
C6_RowInputs ==
  TableReady =>
    \A r \in 1..Len(table) :
       LET inputs == SortedInputs(nodes)
           n == NumInputs(nodes)
       IN  /\ Len(table[r].inputs) = n
           /\ \A j \in 1..n :
                /\ table[r].inputs[j].key = inputs[j].label
                /\ table[r].inputs[j].val = (((r - 1) \div (2 ^ (n - j))) % 2 = 1)

DistinctLabels(ns, type) ==
  \A j, k \in 1..Len(ns) :
     (j # k /\ ns[j].type = type /\ ns[k].type = type) => ns[j].label # ns[k].label

\* The statement of C6 for circuits whose INPUT labels differ pairwise.
C6_RowInputsDistinct ==
  DistinctLabels(nodes, "INPUT") => C6_RowInputs

\* C7: in every row i, each OUTPUT node's label maps to the value
\* simulateCircuit returns for that node on the caller's nodes with only the
\* INPUT values replaced by the assignment of row i.
C7_RowOutputs ==
  TableReady =>
    \A r \in 1..Len(table) :
       LET settled == simulateCircuit(TempNodes(nodes, r - 1), wires)
       IN  \A o \in Outputs(nodes) :
              /\ RecHas(table[r].outputs, nodes[o].label)
              /\ RecGet(table[r].outputs, nodes[o].label) = settled[o].value

\* The statement of C7 for circuits whose OUTPUT labels differ pairwise.
C7_RowOutputsDistinct ==
  DistinctLabels(nodes, "OUTPUT") => C7_RowOutputs


(* ------------------------------ claims: expression, whole result ------- *)

RECURSIVE Segments(_)
\* The parts of a result between its "; " separators.
Segments(pieces) ==
  IF \A k \in 1..Len(pieces) : pieces[k] # "; " THEN <<pieces>>
  ELSE LET cut == CHOOSE k \in 1..Len(pieces) :
                     /\ pieces[k] = "; "
                     /\ \A j \in 1..(k - 1) : pieces[j] # "; "
       IN  <<SubSeq(pieces, 1, cut - 1)>>
           \o Segments(SubSeq(pieces, cut + 1, Len(pieces)))

\* The positions of the OUTPUT nodes in the node list, in ascending order.
OutputPositions(ns) ==
  LET pos == Outputs(ns)
  IN  [r \in 1..Cardinality(pos) |->
         CHOOSE k \in pos : Cardinality({j \in pos : j < k}) = r - 1]

\* The node list without the OUTPUT nodes other than the one at position o.
OnlyOutput(ns, o) ==
  SelectSeq(ns, LAMBDA n : n.type # "OUTPUT" \/ n.id = ns[o].id)

\* C11: with no OUTPUT node the result is "No Output"; otherwise it has one
\* part per OUTPUT node, in the order of the node list, separated by "; ";
\* the part of an OUTPUT node is "<label> = " and its expansion from an
\* empty path, and equals the whole result for the circuit in which it is
\* the only OUTPUT node (when its expansion goes through no other OUTPUT).
C11_PerOutput ==
  pc = "exprDone" =>
    IF Outputs(nodes) = {} THEN Render(expr) = "No Output"
    ELSE LET pos  == OutputPositions(nodes)
             segs == Segments(expr)
         IN  /\ Len(segs) = Len(pos)
             /\ \A r \in 1..Len(pos) :
                  /\ segs[r] = Lit(nodes[pos[r]].label) \o <<" = ">>
                                 \o buildExpr(nodes, wires, nodes[pos[r]].id, {})
                  /\ (\A a \in Ancestors(nodes, wires, nodes[pos[r]].id) :
                         a \in NodeIds(nodes) => NodeById(nodes, a).type # "OUTPUT")
                       => segs[r] = generateExpression(OnlyOutput(nodes, pos[r]), wires)

\* Two OUTPUT nodes that read the same INPUT, the one labelled Y1 first in
\* the node list, have been synthesized.
C11_Witness ==
  /\ pc = "exprDone"
  /\ Render(expr) = "Y1 = A; Y0 = A"


(* ------------------------------ claims: evaluator, frame and passes ---- *)

\* C12: through a call of simulateCircuit and in what it returns, the list
\* has the length and order of the caller's, every node has its id, kind and
\* label, and every INPUT node the value it had on entry; no step of the call
\* changes the caller's node list or the wires.
C12_Frame ==
  /\ [](pc \in {"sim", "simDone"} =>
          /\ Len(newNodes) = Len(nodes)
          /\ \A k \in 1..Len(nodes) :
               /\ newNodes[k].id = nodes[k].id
               /\ newNodes[k].type = nodes[k].type
               /\ newNodes[k].label = nodes[k].label
               /\ nodes[k].type = "INPUT" => newNodes[k].value = nodes[k].value)
  /\ [][(pc = "sim" \/ pc' = "sim") => (nodes' = nodes /\ wires' = wires)]_vars

\* A call has returned that changed the value of a gate and left an INPUT
\* that was true as it was.
C12_Witness ==
  /\ pc = "simDone"
  /\ wires # << >>
  /\ \E k \in 1..Len(nodes) : nodes[k].type = "INPUT" /\ nodes[k].value
  /\ \E k \in 1..Len(nodes) : newNodes[k].value # nodes[k].value


(* ------------------------------ claims: expression, inputs of the call - *)

\* The node list with the values vl in place of its own.
WithValues(ns, vl) == [k \in 1..Len(ns) |-> [ns[k] EXCEPT !.value = vl[k]]]

\* C13: the result of generateExpression is the result for the same nodes
\* and wires under every other assignment of values to the nodes.
C13_ValueIndependent ==
  pc = "exprDone" =>
    \A vl \in [1..Len(nodes) -> BOOLEAN] :
       generateExpression(WithValues(nodes, vl), wires) = expr

\* A circuit whose INPUT is true and whose NOT gate is true as well (a
\* value it does not have once simulated) has been synthesized.
C13_Witness ==
  /\ pc = "exprDone"
  /\ \E a, g \in 1..Len(nodes) :
       /\ nodes[a].type = "INPUT" /\ nodes[a].value
       /\ nodes[g].type = "NOT" /\ nodes[g].value
  /\ Render(expr) = "Y0 = ¬A"


(* ------------------------------ claims: dangling wires ----------------- *)

\* A wire whose source or target id is the id of no node.
Dangling(ns, w) ==
  w.sourceNodeId \notin NodeIds(ns) \/ w.targetNodeId \notin NodeIds(ns)

\* The wire list without its dangling wires.
WithoutDangling(ns, ws) == SelectSeq(ws, LAMBDA w : ~Dangling(ns, w))

\* The part of C14 about simulateCircuit and generateTruthTable: each
\* returns what it returns for the circuit without the dangling wires.
C14_EvaluatorAndTable ==
  /\ pc = "simDone" =>
       newNodes = simulateCircuit(nodes, WithoutDangling(nodes, wires))
  /\ pc = "tableDone" =>
       table = generateTruthTable(nodes, WithoutDangling(nodes, wires))

\* C14: simulateCircuit, generateTruthTable and generateExpression each
\* return, for a circuit with dangling wires, what they return for the same
\* circuit without those wires.
C14_DanglingIgnored ==
  /\ C14_EvaluatorAndTable
  /\ pc = "exprDone" =>
       expr = generateExpression(nodes, WithoutDangling(nodes, wires))


(* ------------------------------ claims: evaluator, passes -------------- *)

\* The one-pass function of section 4.2 of the specification: every node
\* that is not an INPUT takes the value of its kind's table on the values
\* its drivers have in the snapshot ns; the others keep theirs.
SyncPass(ns, ws) ==
  Array([k \in 1..Len(ns) |->
     IF ns[k].type = "INPUT" THEN ns[k]
     ELSE [ns[k] EXCEPT !.value = GateTable(ns[k].type,
                                            PinTrue(ns, ws, ns[k].id, 0),
                                            PinTrue(ns, ws, ns[k].id, 1))]])

RECURSIVE SyncFold(_, _, _)
\* SyncPass applied k times.
SyncFold(ns, ws, k) ==
  IF k = 0 THEN ns ELSE SyncFold(SyncPass(ns, ws), ws, k - 1)

\* C15: every pass of simulateCircuit takes the list to its image under the
\* one-pass function, each node computed from the snapshot before the pass;
\* the return leaves the list as the last pass made it; so what is returned
\* after k passes is the k-fold image of the caller's list.
C15_Synchronous ==
  /\ [][(pc = "sim" /\ pc' = "sim") =>
           newNodes' = SyncPass(newNodes, wires)]_vars
  /\ [][(pc = "sim" /\ pc' = "simDone") =>
           (newNodes' = newNodes /\ iterations' = iterations)]_vars
  /\ [](pc = "simDone" => newNodes = SyncFold(nodes, wires, iterations))

\* A call has returned at the cap while values still changed, with the
\* 50-fold image of the caller's list, which differs from the 49-fold one.
C15_Witness ==
  /\ pc = "simDone"
  /\ iterations = MAX_ITERATIONS
  /\ changed
  /\ newNodes = SyncFold(nodes, wires, MAX_ITERATIONS)
  /\ newNodes # SyncFold(nodes, wires, MAX_ITERATIONS - 1)

\* C16: simulateCircuit returns as soon as a pass has changed no value and
\* not before: after a pass, `changed` tells whether the pass changed a
\* value, and a call whose last pass changed none returns at once; so a
\* result returned after fewer than 50 passes is a fixed point of the
\* one-pass function, on cyclic circuits as on acyclic ones.
C16_StopsAtFixedPoint ==
  /\ [](pc = "simDone" /\ iterations < MAX_ITERATIONS =>
          SyncPass(newNodes, wires) = newNodes)
  /\ [][(pc = "sim" /\ pc' = "sim") =>
           (changed' <=> newNodes' # newNodes)]_vars
  /\ [][(pc = "sim" /\ ~changed) => pc' = "simDone"]_vars

\* A circuit with a feedback loop has settled and returned before the cap,
\* after a pass that changed a value.
C16_Witness ==
  /\ pc = "simDone"
  /\ ~Acyclic(nodes, wires)
  /\ iterations >= 2
  /\ iterations < MAX_ITERATIONS
  /\ newNodes # nodes
  /\ SyncPass(newNodes, wires) = newNodes

\* A call has returned at the cap with a result that is no fixed point.
C16_UnsettledAtCap ==
  /\ pc = "simDone"
  /\ iterations = MAX_ITERATIONS
  /\ SyncPass(newNodes, wires) # newNodes


(* ------------------------------ claims: expression, placeholders ------- *)

\* The only OUTPUT node is at position o and its pin 0 is driven from id.
OnlyOutputReads(ns, ws, o, id) ==
  /\ Outputs(ns) = {o}
  /\ PinWire(ws, ns[o].id, 0) # << >>
  /\ PinWire(ws, ns[o].id, 0)[1].sourceNodeId = id

\* C17: where the only OUTPUT o reads a two-input gate g whose pin 0 is
\* driven and whose pin 1 is not, the result is "<label> = " and the
\* notation of the kind of g on the expansion of its pin 0 source and the
\* literal "0"; where it reads a node that is no INPUT and has no driving
\* wire and no label, or an id that no node has, it is "<label> = ?".
C17_Placeholders ==
  pc = "exprDone" =>
    \A o \in 1..Len(nodes) :
       /\ \A g \in 1..Len(nodes) :
            ( /\ OnlyOutputReads(nodes, wires, o, nodes[g].id)
              /\ nodes[g].type \in BinaryGates
              /\ PinWire(wires, nodes[g].id, 0) # << >>
              /\ PinWire(wires, nodes[g].id, 1) = << >> )
            => expr = Lit(nodes[o].label) \o <<" = ">> \o
                      Notation(nodes[g].type,
                               PinExpr(nodes, wires, g, 0, {nodes[o].id, nodes[g].id}),
                               <<"0">>)
       /\ \A g \in 1..Len(nodes) :
            ( /\ OnlyOutputReads(nodes, wires, o, nodes[g].id)
              /\ nodes[g].type # "INPUT"
              /\ nodes[g].label = ""
              /\ InputWires(nodes[g].id, wires) = << >> )
            => Render(expr) = nodes[o].label \o " = ?"
       /\ \A id \in 1..MaxNodes :
            (OnlyOutputReads(nodes, wires, o, id) /\ id \notin NodeIds(nodes))
            => Render(expr) = nodes[o].label \o " = ?"

\* An AND gate with pin 0 from an INPUT and nothing on pin 1 has been
\* synthesized.
C17_Witness ==
  /\ pc = "exprDone"
  /\ \E o, g \in 1..Len(nodes) :
       /\ OnlyOutputReads(nodes, wires, o, nodes[g].id)
       /\ nodes[g].type = "AND"
       /\ PinWire(wires, nodes[g].id, 1) = << >>
  /\ Render(expr) = "Y0 = (A · 0)"

\* An OUTPUT that reads an XOR gate without wires has been synthesized.
C17_WitnessPlaceholder ==
  /\ pc = "exprDone"
  /\ Render(expr) = "Y0 = ?"
  /\ \E o, g \in 1..Len(nodes) :
       /\ OnlyOutputReads(nodes, wires, o, nodes[g].id)
       /\ nodes[g].type = "XOR"
       /\ InputWires(nodes[g].id, wires) = << >>


(* ------------------------------ claims: editor ------------------------- *)

\* The two wires end at the same pin of the same node.
SamePin(v, w) ==
  v.targetNodeId = w.targetNodeId /\ v.targetPinIndex = w.targetPinIndex

\* C18: in every state the editor reaches from the empty circuit, no two
\* wires end at the same pin of the same node; and a step that makes a wire
\* puts it in the place of the wire that ended at its target pin, or at the
\* end of the list when there was none, and leaves every other wire as it
\* was.
C18_OneWirePerPin ==
  /\ [](\A j, k \in 1..Len(wires) : SamePin(wires[j], wires[k]) => j = k)
  /\ [][(\E k \in 1..Len(wires') : wires'[k].id = now + 1) =>
          LET new == wires'[CHOOSE k \in 1..Len(wires') : wires'[k].id = now + 1]
          IN  IF \E k \in 1..Len(wires) : SamePin(wires[k], new)
              THEN /\ Len(wires') = Len(wires)
                   /\ \A k \in 1..Len(wires) :
                        wires'[k] = IF SamePin(wires[k], new) THEN new
                                    ELSE wires[k]
              ELSE wires' = Append(wires, new)]_vars

\* A wire has taken the place of an older wire at a pin, ahead of a wire
\* that was made before it.
C18_Witness ==
  /\ pc = "rendered"
  /\ \E j, k \in 1..Len(wires) : j < k /\ wires[j].id > wires[k].id


(* ------------------------------ claims: circuit generator -------------- *)

\* The failures of the generator: the API key is missing, the request
\* throws, the response text is empty, or it cannot be parsed.
GeneratorFails(key, response) ==
  ~key \/ response.kind \in {"throws", "empty", "garbage"}

\* C19: when a request completes whose generator failed, the failure is
\* alerted, and the nodes, the wires and what was computed from them stay
\* as they are: nothing is imported and the effect does not run.
C19_FailureStaysOut ==
  [][\A k \in 1..Len(inFlight) :
        ( /\ inFlight' = RemoveAt(inFlight, k)
          /\ GeneratorFails(apiKey, inFlight[k].response) )
        => /\ alerts' = alerts + 1
           /\ nodes' = nodes
           /\ wires' = wires
           /\ pc' = pc
           /\ table' = table
           /\ expr' = expr]_vars

\* A failure has been alerted while an imported circuit was on the canvas.
C19_Witness ==
  /\ alerts >= 1
  /\ inFlight = << >>
  /\ nodes # << >>
  /\ pc = "rendered"


(* ------------------------------ claims: truth table and entry values --- *)

\* The value assignments a table is compared under: every assignment to a
\* list of at most MaxNodes + 1 nodes, and the two constant assignments to
\* a longer list.
Assignments(ns) ==
  IF Len(ns) <= MaxNodes + 1 THEN [1..Len(ns) -> BOOLEAN]
  ELSE {[k \in 1..Len(ns) |-> v] : v \in BOOLEAN}

\* C20: on an acyclic circuit, the table generateTruthTable returns is the
\* table it returns for the same nodes and wires under every other
\* assignment of values to the nodes, INPUT or not.
C20_TableValueIndependent ==
  (pc = "tableDone" /\ Acyclic(nodes, wires)) =>
     \A vl \in Assignments(nodes) :
        generateTruthTable(WithValues(nodes, vl), wires) = table

\* The statement of C20 for circuits of fewer nodes than simulateCircuit
\* makes passes.
C20_TableValueIndependentShallow ==
  Len(nodes) < MAX_ITERATIONS => C20_TableValueIndependent


(* ------------------------------ claims: expression against the table --- *)

\* The negation of a value read from an expression; no value has none.
Neg(a) == IF a = undefined THEN undefined ELSE <<~a[1]>>

\* The value of a two-operand form: " · " read as and, " + " as or, " ⊕ " as
\* exclusive or; none when an operand has none or the sign is another one.
Apply(op, a, b) ==
  IF a = undefined \/ b = undefined THEN undefined
  ELSE CASE op = " · " -> <<a[1] /\ b[1]>>
         [] op = " + " -> <<a[1] \/ b[1]>>
         [] op = " ⊕ " -> <<a[1] # b[1]>>
         [] OTHER      -> undefined

RECURSIVE ReadExpr(_, _, _)
\* Reads one expression from position k of the pieces under the assignment
\* rec of values to INPUT labels: "0" is false, an INPUT label its value in
\* rec, "¬" negates the expression that follows, "(" and "¬(" open a
\* two-operand form. Gives the value, none when a piece cannot be read, and
\* the position after the expression.
ReadExpr(pieces, k, rec) ==
  IF k > Len(pieces) THEN [val |-> undefined, next |-> k]
  ELSE LET tok == pieces[k]
       IN  CASE tok = "0" -> [val |-> <<FALSE>>, next |-> k + 1]
             [] tok = "¬" ->
                  LET x == ReadExpr(pieces, k + 1, rec)
                  IN  [val |-> Neg(x.val), next |-> x.next]
             [] tok \in {"(", "¬("} ->
                  LET x == ReadExpr(pieces, k + 1, rec)
                      op == IF x.next <= Len(pieces) THEN pieces[x.next] ELSE ""
                      y == ReadExpr(pieces, x.next + 1, rec)
                      closed == y.next <= Len(pieces) /\ pieces[y.next] = ")"
                      v == IF closed THEN Apply(op, x.val, y.val) ELSE undefined
                  IN  [val |-> IF tok = "(" THEN v ELSE Neg(v), next |-> y.next + 1]
             [] OTHER ->
                  [val |-> IF RecHas(rec, tok) THEN <<RecGet(rec, tok)>> ELSE undefined,
                   next |-> k + 1]

\* The value of a whole expression under rec; none when it cannot be read.
ValueOf(pieces, rec) ==
  LET x == ReadExpr(pieces, 1, rec)
  IN  IF x.next = Len(pieces) + 1 THEN x.val ELSE undefined

\* What follows the first " = " of a part of the result.
RightSide(seg) ==
  LET cut == CHOOSE k \in 1..Len(seg) :
                /\ seg[k] = " = "
                /\ \A j \in 1..(k - 1) : seg[j] # " = "
  IN  SubSeq(seg, cut + 1, Len(seg))

\* The expression generateExpression gives the q-th OUTPUT node of the list.
OutputExpr(ns, ws, q) == RightSide(Segments(generateExpression(ns, ws))[q])

\* C21: on an acyclic circuit, in every row of the truth table, the
\* expression generateExpression gives an OUTPUT node, read under the row's
\* input assignment, has the value the row gives that node's label.
C21_ExpressionAgrees ==
  (TableReady /\ Acyclic(nodes, wires)) =>
     LET pos == OutputPositions(nodes)
     IN  \A r \in 1..Len(table), q \in 1..Len(pos) :
            ValueOf(OutputExpr(nodes, wires, q), table[r].inputs)
              = <<RecGet(table[r].outputs, nodes[pos[q]].label)>>

\* Every expression of the result can be read: it is made of INPUT labels,
\* "0" and the signs of the notation only.
Readable(ns, ws) ==
  \A q \in 1..Len(OutputPositions(ns)) :
     \A k \in 1..Len(OutputExpr(ns, ws, q)) :
        OutputExpr(ns, ws, q)[k] \in
          {"0", "¬", "(", "¬(", ")", " · ", " + ", " ⊕ "}
            \cup {ns[j].label : j \in {j \in 1..Len(ns) : ns[j].type = "INPUT"}}

\* The statement of C21 for circuits whose INPUT labels and OUTPUT labels
\* differ pairwise and whose expressions can all be read.
C21_ExpressionAgreesReadable ==
  ( /\ DistinctLabels(nodes, "INPUT")
    /\ DistinctLabels(nodes, "OUTPUT")
    /\ Readable(nodes, wires) )
  => C21_ExpressionAgrees

\* A gate with only its pin 1 wired has been tabulated, and its expression
\* reads as the table's column.
C21_WitnessPinOne ==
  /\ pc = "tableDone"
  /\ Acyclic(nodes, wires)
  /\ Render(generateExpression(nodes, wires)) = "Y0 = ¬(A · 0)"
  /\ Len(wires) = 2
  /\ \E w \in 1..Len(wires) : wires[w].targetPinIndex = 1
  /\ C21_ExpressionAgrees


(* ------------------------------ claims: the effect of App -------------- *)

\* C22: whenever the effect is due, after an edit, a toggle or its own
\* write of simulated values, a render is reached after which it is due no
\* more: the node values have stopped changing.
C22_EffectQuiesces == (pc = "effect") ~> (pc = "rendered")

\* A run of the effect replaces the node list only by one in which some
\* value differs.
C22_WritesOnlyChanges ==
  [][(pc = "effect" /\ nodes' # nodes) =>
        /\ Len(nodes') = Len(nodes)
        /\ \E k \in 1..Len(nodes) : nodes'[k].value # nodes[k].value]_vars

\* The statement of C22 for the acyclic circuits of the editor: one more
\* run of the effect after a write finds nothing to write.
C22_AcyclicQuiesces ==
  (pc = "effect" /\ Acyclic(nodes, wires)) =>
     simulateCircuit(simulateCircuit(nodes, wires), wires)
       = simulateCircuit(nodes, wires)


(* ------------------------------ claims: labels in the editor ----------- *)

\* C23: in every state of the editor the labels of the INPUT nodes differ
\* pairwise and so do the labels of the OUTPUT nodes, and every row of a
\* table that is set has one input entry per INPUT node and one output
\* entry per OUTPUT node.
C23_LabelsDistinct ==
  /\ DistinctLabels(nodes, "INPUT")
  /\ DistinctLabels(nodes, "OUTPUT")
  /\ pc = "rendered" =>
        \A r \in 1..Len(table) :
           /\ Len(table[r].inputs) = CountType(nodes, "INPUT")
           /\ Len(table[r].outputs) = CountType(nodes, "OUTPUT")

\* Two INPUT nodes carry the label B: the one added second, and one added
\* after the first was deleted.
C23_DuplicateInput ==
  /\ pc = "rendered"
  /\ Len(nodes) = 2
  /\ \A k \in 1..2 : nodes[k].type = "INPUT" /\ nodes[k].label = "B"


(* ------------------------------ claims: requests in flight ------------- *)

\* C24: at most one request of handleGenerate is in flight, and
\* isGenerating is true exactly while one is.
C24_OneInFlight ==
  /\ Len(inFlight) <= 1
  /\ isGenerating <=> inFlight # << >>

\* The second request has completed and its circuit is on the canvas while
\* the first is still in flight, with isGenerating false.
C24_Overtaken ==
  /\ requested = 2
  /\ Len(inFlight) = 1
  /\ inFlight[1].n = 1
  /\ nodes # << >>
  /\ ~isGenerating

====
